---- MODULE Spec2Model ----
(***************************************************************************)
(* OFAC sanctions list tracking: the historical reconciler                 *)
(* (src/ofac/historical_recon.py), the incremental reconciler and the      *)
(* panel builder (src/ofac/ofac.py), driven by the two scripts             *)
(* src/historical-reconiliation.py and src/monthly_download.py.            *)
(*                                                                         *)
(* Representation.  A data frame is a sequence of records (its rows, in    *)
(* row order).  A date string 'YYYY-MM-DD' is the integer YYYYMMDD: the    *)
(* code compares dates as strings, and on fixed-width date strings the     *)
(* lexicographic order is the order of these integers.  A country string   *)
(* is the tuple of its characters, so that str.startswith is a prefix      *)
(* test.  All the descriptive columns of an observation other than Ent_num *)
(* and Country (name, program, address, alternate names, remarks) are one  *)
(* column, Address.                                                        *)
(***************************************************************************)
EXTENDS Integers, Sequences, FiniteSets, TLC

VARIABLES
    files,          \* data/ofac_full_<date>.csv, in file-name order
    ofac_list,      \* data/ofac_list.csv: the tracked list
    ofac_panel,     \* data/ofac_panel.csv
    seed,           \* how data/ofac_list.csv came to be
    existing_data,  \* the tracked list read by the latest update_ofac_list
    current_date,   \* OFACProcessor.current_date of the latest run
    history         \* every snapshot reconciled so far, oldest first

vars == <<files, ofac_list, ofac_panel, seed, existing_data, current_date, history>>

(***************************************************************************)
(* Bounds                                                                  *)
(***************************************************************************)
MaxSnapshots == 3

(***************************************************************************)
(* Missing values                                                          *)
(***************************************************************************)
\* pd.NA / np.nan in a date column
NaT == 0

\* NaN in the Country column (an entity without address row)
NaN == <<"NaN">>

isna(x) == x = NaT

(***************************************************************************)
(* Sequences                                                               *)
(***************************************************************************)
Min(S) == CHOOSE x \in S : \A y \in S : x <= y

Max(S) == CHOOSE x \in S : \A y \in S : y <= x

RECURSIVE SetToSeq(_)
SetToSeq(S) ==
    IF S = {} THEN <<>>
    ELSE LET x == CHOOSE y \in S : TRUE IN <<x>> \o SetToSeq(S \ {x})

\* sorted(...) of a set of dates
RECURSIVE SortedDates(_)
SortedDates(S) ==
    IF S = {} THEN <<>> ELSE <<Min(S)>> \o SortedDates(S \ {Min(S)})

\* the rows of s at the indices I, in row order
RECURSIVE Take(_, _)
Take(s, I) ==
    IF I = {} THEN <<>> ELSE <<s[Min(I)]>> \o Take(s, I \ {Min(I)})

\* DataFrame.drop_duplicates(subset=..., keep='first'); subset[i] holds the
\* subset columns of row i
DropDuplicates(df, subset) ==
    Take(df, {i \in DOMAIN df : \A j \in 1..(i - 1) : subset[j] # subset[i]})

\* pd.concat of a sequence of frames
RECURSIVE Concat(_)
Concat(dfs) ==
    IF dfs = <<>> THEN <<>> ELSE Head(dfs) \o Concat(Tail(dfs))

(***************************************************************************)
(* Dates                                                                   *)
(***************************************************************************)
Year(d) == d \div 10000

MonthOf(d) == (d \div 100) % 100

Day(d) == d % 100

MkDate(y, m, d) == y * 10000 + m * 100 + d

IsLeap(y) == (y % 4 = 0 /\ y % 100 # 0) \/ y % 400 = 0

DaysInMonth(y, m) ==
    IF m = 2 THEN (IF IsLeap(y) THEN 29 ELSE 28)
    ELSE IF m \in {4, 6, 9, 11} THEN 30 ELSE 31

\* the result when the date is itself a month end: the end of the next month
MonthEndNoRoll(d) ==
    IF MonthOf(d) = 12 THEN MkDate(Year(d) + 1, 1, 31)
    ELSE MkDate(Year(d), MonthOf(d) + 1, DaysInMonth(Year(d), MonthOf(d) + 1))

\* (pd.to_datetime(d) + pd.offsets.MonthEnd(1)).strftime('%Y-%m-%d'):
\* the date rolled forward to the next month end; a date that is not a
\* month end goes to the end of its own month
MonthEnd(d) ==
    IF Day(d) < DaysInMonth(Year(d), MonthOf(d))
    THEN MkDate(Year(d), MonthOf(d), DaysInMonth(Year(d), MonthOf(d)))
    ELSE MonthEndNoRoll(d)

(***************************************************************************)
(* Keys                                                                    *)
(***************************************************************************)
\* the (Ent_num, Country) columns of a row
KeyOf(r) == <<r.Ent_num, r.Country>>

\* the groups of groupby(['Ent_num', 'Country']): rows with a NaN key
\* column belong to no group (dropna=True)
GroupKeys(df) == {KeyOf(df[i]) : i \in {j \in DOMAIN df : df[j].Country # NaN}}

\* the Rep_date values of one group
GroupDates(df, k) == {df[i].Rep_date : i \in {j \in DOMAIN df : KeyOf(df[j]) = k}}

\* dedup_cols: every column except Rep_date, add_date, removal_date
DedupCols(r) == <<r.Ent_num, r.Address, r.Country>>

(***************************************************************************)
(* Historical reconciler                                                   *)
(***************************************************************************)
\* mutant of HistRemovalDate: the comparison also takes the keys of the final
\* snapshot
HistRemovalDateInclusive(last_date, latest_date) ==
    IF last_date <= latest_date THEN MonthEnd(last_date) ELSE NaT

\* np.where(last_date < latest_date, last_date + MonthEnd(1), np.nan)
HistRemovalDate(last_date, latest_date) ==
    IF last_date < latest_date THEN MonthEnd(last_date) ELSE NaT

reconcile_historical_data(fs) ==
    LET full_data == Concat([i \in DOMAIN fs |-> fs[i].rows])
        date_ranges == [k \in GroupKeys(full_data) |->
                          [add_date  |-> Min(GroupDates(full_data, k)),
                           last_date |-> Max(GroupDates(full_data, k))]]
        unique_data == DropDuplicates(full_data, [i \in DOMAIN full_data |-> DedupCols(full_data[i])])
        \* inner merge on (Ent_num, Country): rows without date range go
        merged == SelectSeq(unique_data, LAMBDA r : KeyOf(r) \in DOMAIN date_ranges)
        latest_date == fs[Len(fs)].date
    IN  [i \in DOMAIN merged |->
            [Ent_num      |-> merged[i].Ent_num,
             Address      |-> merged[i].Address,
             Country      |-> merged[i].Country,
             Rep_date     |-> merged[i].Rep_date,
             add_date     |-> date_ranges[KeyOf(merged[i])].add_date,
             removal_date |-> HistRemovalDate(
                                 date_ranges[KeyOf(merged[i])].last_date,
                                 latest_date)]]

(***************************************************************************)
(* Incremental reconciler                                                  *)
(***************************************************************************)
\* download_current_data: the merged lists, tagged with the current date
download_current_data(rows, today) ==
    [i \in DOMAIN rows |->
        [Ent_num  |-> rows[i].Ent_num,
         Address  |-> rows[i].Address,
         Country  |-> rows[i].Country,
         Rep_date |-> today]]

\* mutant of AddDate: the original add dates are not restored
AddDateKeepsCurrent(add_date_current, add_date_original) == add_date_current

\* np.where(add_date_original.isna(), add_date_current, add_date_original)
AddDate(add_date_current, add_date_original) ==
    IF isna(add_date_original) THEN add_date_current ELSE add_date_original

\* mutant of RemovalDate: the month end is not clamped to the current date
RemovalDateNoClamp(last_date, removal_date, today) ==
    IF last_date < today /\ isna(removal_date)
    THEN MonthEnd(last_date)
    ELSE removal_date

\* the np.where that updates removal_date
RemovalDate(last_date, removal_date, today) ==
    IF last_date < today /\ isna(removal_date)
    THEN (IF MonthEnd(last_date) > today THEN today ELSE MonthEnd(last_date))
    ELSE removal_date

\* existing_data[['Ent_num','Country','add_date']].drop_duplicates(subset=key),
\* looked up by the left merge: the add_date of the first row of the key,
\* NaT for a key with no row
OriginalAddDate(existing, k) ==
    LET rows == DropDuplicates(existing, [i \in DOMAIN existing |-> KeyOf(existing[i])])
        hit  == {i \in DOMAIN rows : KeyOf(rows[i]) = k}
    IN  IF hit = {} THEN NaT ELSE rows[CHOOSE i \in hit : TRUE].add_date

update_ofac_list(existing, rows, today) ==
    LET downloaded == download_current_data(rows, today)
        current_data == [i \in DOMAIN downloaded |->
                            [Ent_num      |-> downloaded[i].Ent_num,
                             Address      |-> downloaded[i].Address,
                             Country      |-> downloaded[i].Country,
                             Rep_date     |-> downloaded[i].Rep_date,
                             add_date     |-> today,
                             removal_date |-> NaT]]
        full_data == existing \o current_data
        date_ranges == [k \in GroupKeys(full_data) |-> Max(GroupDates(full_data, k))]
        unique_data == DropDuplicates(full_data, [i \in DOMAIN full_data |-> DedupCols(full_data[i])])
        merged == SelectSeq(unique_data, LAMBDA r : KeyOf(r) \in DOMAIN date_ranges)
    IN  [i \in DOMAIN merged |->
            [Ent_num      |-> merged[i].Ent_num,
             Address      |-> merged[i].Address,
             Country      |-> merged[i].Country,
             Rep_date     |-> merged[i].Rep_date,
             add_date     |-> AddDate(merged[i].add_date,
                                      OriginalAddDate(existing, KeyOf(merged[i]))),
             removal_date |-> RemovalDate(date_ranges[KeyOf(merged[i])],
                                          merged[i].removal_date, today)]]

(***************************************************************************)
(* Country strings                                                         *)
(***************************************************************************)
\* the characters of the country strings, in code point order
Alphabet ==
    <<" ", "-", "0", "1", "2", "3", "4", "5", "6", "7", "8", "9", ":",
      "A", "B", "C", "D", "E", "F", "G", "H", "I", "J", "K", "L", "M",
      "N", "O", "P", "Q", "R", "S", "T", "U", "V", "W", "X", "Y", "Z",
      "a", "b", "c", "d", "e", "f", "g", "h", "i", "j", "k", "l", "m",
      "n", "o", "p", "q", "r", "s", "t", "u", "v", "w", "x", "y", "z">>

CodePoint ==
    [c \in {Alphabet[i] : i \in DOMAIN Alphabet} |->
        CHOOSE i \in DOMAIN Alphabet : Alphabet[i] = c]

ord(c) == CodePoint[c]

\* s < t on strings
RECURSIVE StrLess(_, _)
StrLess(s, t) ==
    IF t = <<>> THEN FALSE
    ELSE IF s = <<>> THEN TRUE
    ELSE IF Head(s) # Head(t) THEN ord(Head(s)) < ord(Head(t))
    ELSE StrLess(Tail(s), Tail(t))

\* str.startswith(p, na=False)
StartsWith(s, p) ==
    /\ s # NaN
    /\ Len(s) >= Len(p)
    /\ SubSeq(s, 1, Len(p)) = p

WestBank == <<"W", "e", "s", "t", " ", "B", "a", "n", "k">>

RegionGaza == <<"R", "e", "g", "i", "o", "n", ":", " ", "G", "a", "z", "a">>

RegionWestBank == <<"R", "e", "g", "i", "o", "n", ":", " ", "W", "e", "s", "t", " ", "B", "a", "n", "k">>

Palestinian == <<"P", "a", "l", "e", "s", "t", "i", "n", "i", "a", "n">>

WestBankAndGaza == <<"W", "e", "s", "t", " ", "B", "a", "n", "k", " ", "a", "n", "d", " ", "G", "a", "z", "a">>

Region == <<"R", "e", "g", "i", "o", "n">>

Dash == <<"-">>

undetermined == <<"u", "n", "d", "e", "t", "e", "r", "m", "i", "n", "e", "d">>

wb_g == {WestBank, RegionGaza, RegionWestBank, Palestinian}

(***************************************************************************)
(* Panel builder                                                           *)
(***************************************************************************)
\* Series.replace(wb_g, 'West Bank and Gaza') on one value
ReplaceCountry(c) == IF c \in wb_g THEN WestBankAndGaza ELSE c

\* the rows removed as special cases
IsSpecialCase(c) ==
    \/ StartsWith(c, Dash)
    \/ StartsWith(c, Region)
    \/ c = undetermined

\* mutant of NormalizeCountries: the special-case filter runs before the
\* consolidation
FilterThenReplace(records) ==
    LET kept == SelectSeq(records, LAMBDA r : ~IsSpecialCase(r.Country))
    IN  [i \in DOMAIN kept |-> [kept[i] EXCEPT !.Country = ReplaceCountry(@)]]

\* the West Bank and Gaza consolidation, then the special-case filter
NormalizeCountries(records) ==
    LET replaced == [i \in DOMAIN records |->
                        [records[i] EXCEPT !.Country = ReplaceCountry(@)]]
    IN  SelectSeq(replaced, LAMBDA r : ~IsSpecialCase(r.Country))

\* data[['Ent_num','Country','add_date','removal_date']].drop_duplicates(),
\* consolidated and filtered
BaseRecords(data) ==
    LET cols == [i \in DOMAIN data |->
                    [Ent_num      |-> data[i].Ent_num,
                     Country      |-> data[i].Country,
                     add_date     |-> data[i].add_date,
                     removal_date |-> data[i].removal_date]]
    IN  NormalizeCountries(DropDuplicates(cols, cols))

\* groupby(['Country','add_date']).size(), left-merged on (Country, Date)
\* and filled with 0
EntityCounts(base_records, c, d) ==
    Cardinality({i \in DOMAIN base_records :
                    /\ base_records[i].Country = c
                    /\ base_records[i].add_date = d})

\* the removal_date.notna() rows, groupby(['Country','removal_date']).size(),
\* left-merged on (Country, Date) and filled with 0
Removals(base_records, c, d) ==
    Cardinality({i \in DOMAIN base_records :
                    /\ ~isna(base_records[i].removal_date)
                    /\ base_records[i].Country = c
                    /\ base_records[i].removal_date = d})

\* mutant of Additions: the first date is not forced to 0
AdditionsNoBaseline(d, first_date, entity_counts) == entity_counts

\* np.where(Date == first_date, 0, entity_counts)
Additions(d, first_date, entity_counts) ==
    IF d = first_date THEN 0 ELSE entity_counts

\* mutant of TempCol: the first date is not seeded with entity_counts
TempColNoBootstrap(d, first_date, entity_counts, change) == change

\* np.where(Date == first_date, entity_counts, change)
TempCol(d, first_date, entity_counts, change) ==
    IF d = first_date THEN entity_counts ELSE change

\* cumsum of the first n values of a column
RECURSIVE CumSum(_, _)
CumSum(col, n) == IF n = 0 THEN 0 ELSE CumSum(col, n - 1) + col[n]

\* dt.to_period('Q') and dt.to_period('M')
YrQtr(d) == Year(d) * 10 + ((MonthOf(d) - 1) \div 3) + 1

YrMon(d) == d \div 100

\* a set of strings in ascending order
RECURSIVE SortedStrings(_)
SortedStrings(S) ==
    IF S = {} THEN <<>>
    ELSE LET c == CHOOSE x \in S : \A y \in S \ {x} : StrLess(x, y)
         IN  <<c>> \o SortedStrings(S \ {c})

\* sort_values(['Country', 'Date']) of rows with distinct (Country, Date):
\* the countries ascending, the rows of each country by ascending date
SortValues(rows) ==
    LET countries == SortedStrings({r.Country : r \in rows})
        dates == SortedDates({r.Date : r \in rows})
        OfCountry(c) ==
            LET at(d) == {r \in rows : r.Country = c /\ r.Date = d}
                ds == SelectSeq(dates, LAMBDA d : at(d) # {})
            IN  [j \in DOMAIN ds |-> CHOOSE r \in at(ds[j]) : TRUE]
    IN  Concat([n \in DOMAIN countries |-> OfCountry(countries[n])])

CreatePanel(data) ==
    LET base_records == BaseRecords(data)
        dates_df == SortedDates({data[i].Rep_date : i \in DOMAIN data})
        country_col == [i \in DOMAIN base_records |-> base_records[i].Country]
        \* Series.unique(): the values in order of first appearance
        countries_df == DropDuplicates(country_col, country_col)
        first_date == dates_df[1]
        temp_col(c) ==
            [j \in DOMAIN dates_df |->
                LET ec == EntityCounts(base_records, c, dates_df[j])
                    change == Additions(dates_df[j], first_date, ec)
                              - Removals(base_records, c, dates_df[j])
                IN  TempCol(dates_df[j], first_date, ec, change)]
        Cell(j, c) ==
            LET ec == EntityCounts(base_records, c, dates_df[j])
                additions == Additions(dates_df[j], first_date, ec)
                removals == Removals(base_records, c, dates_df[j])
            IN  [Country   |-> c,
                 Date      |-> dates_df[j],
                 yrqtr     |-> YrQtr(dates_df[j]),
                 yrmon     |-> YrMon(dates_df[j]),
                 levels    |-> CumSum(temp_col(c), j),
                 additions |-> additions,
                 removals  |-> removals,
                 change    |-> additions - removals]
        \* dates_df.merge(countries_df, how='cross') and the left merges:
        \* one row per (date, country) position pair
        panel == [p \in (DOMAIN dates_df) \X (DOMAIN countries_df) |->
                     Cell(p[1], countries_df[p[2]])]
    IN  SortValues({panel[p] : p \in DOMAIN panel})

\* historical_recon.create_panel is the same code as OFACProcessor.create_panel
create_panel(data) == CreatePanel(data)

(***************************************************************************)
(* Inputs                                                                  *)
(***************************************************************************)
MaxRows == 2

Libya == <<"L", "i", "b", "y", "a">>

Iran == <<"I", "r", "a", "n">>

RegionCrimea == <<"R", "e", "g", "i", "o", "n", ":", " ", "C", "r", "i", "m", "e", "a">>

DashZero == <<"-", "0">>

Obs(e, a, c) == [Ent_num |-> e, Address |-> a, Country |-> c]

\* observations of the reconciliation runs: two address variants of one
\* (entity, country) pair, a second pair of that country, a second country
ReconRows ==
    {Obs(100, "a", Libya), Obs(100, "b", Libya), Obs(200, "a", Libya),
     Obs(300, "a", Iran)}

\* report dates: mid-month and month-end days
ReconDates == {20210115, 20210131, 20210215, 20210331}

\* observations of the panel runs: the country variants the panel builder
\* consolidates or drops
PanelRows ==
    {Obs(100, "a", WestBank), Obs(200, "a", RegionGaza),
     Obs(300, "a", RegionWestBank), Obs(100, "a", Palestinian),
     Obs(400, "a", Iran), Obs(500, "a", DashZero),
     Obs(600, "a", undetermined), Obs(700, "a", RegionCrimea)}

PanelDates == {20210131, 20210228}

\* the snapshots a source can deliver: at most MaxRows observations, in
\* some row order
Snapshots(U) == {SetToSeq(S) : S \in {T \in SUBSET U : Cardinality(T) <= MaxRows}}

ReconSnapshots == Snapshots(ReconRows)

PanelSnapshots == Snapshots(PanelRows)

\* the report date of the latest snapshot on disk or reconciled, NaT if none
LatestDate ==
    IF history # <<>> THEN history[Len(history)].date
    ELSE IF files # <<>> THEN files[Len(files)].date
    ELSE NaT

(***************************************************************************)
(* State machine                                                           *)
(***************************************************************************)
Init ==
    /\ files = <<>>
    /\ ofac_list = <<>>
    /\ ofac_panel = <<>>
    /\ seed \in {"none", "empty"}
    /\ existing_data = <<>>
    /\ current_date = NaT
    /\ history = <<>>

\* a full snapshot is saved as data/ofac_full_<d>.csv
ArchiveSnapshot(SS, D) ==
    /\ seed = "none"
    /\ Len(files) < MaxSnapshots
    /\ \E d \in D, rows \in SS :
          /\ d > LatestDate
          /\ files' = Append(files,
                 [date |-> d, rows |-> download_current_data(rows, d)])
    /\ UNCHANGED <<ofac_list, ofac_panel, seed, existing_data, current_date, history>>

\* src/historical-reconiliation.py
HistoricalReconciliation ==
    /\ seed = "none"
    /\ files # <<>>
    /\ ofac_list' = reconcile_historical_data(files)
    /\ ofac_panel' = create_panel(ofac_list')
    /\ seed' = "historical"
    /\ history' = files
    /\ UNCHANGED <<files, existing_data, current_date>>

\* src/monthly_download.py, run on day d with the lists then published
MonthlyDownload(SS, D) ==
    /\ seed # "none"
    /\ Len(history) < MaxSnapshots
    /\ \E d \in D, rows \in SS :
          /\ d > LatestDate
          /\ current_date' = d
          /\ existing_data' = ofac_list
          /\ ofac_list' = update_ofac_list(ofac_list, rows, d)
          /\ history' = Append(history,
                 [date |-> d, rows |-> download_current_data(rows, d)])
    /\ ofac_panel' = CreatePanel(ofac_list')
    /\ UNCHANGED <<files, seed>>

Next ==
    \/ ArchiveSnapshot(ReconSnapshots, ReconDates)
    \/ HistoricalReconciliation
    \/ MonthlyDownload(ReconSnapshots, ReconDates)

Spec == Init /\ [][Next]_vars

NextPanel ==
    \/ ArchiveSnapshot(PanelSnapshots, PanelDates)
    \/ HistoricalReconciliation
    \/ MonthlyDownload(PanelSnapshots, PanelDates)

SpecPanel == Init /\ [][NextPanel]_vars

\* observations with an entity that has no address row: its Country is NaN
MissingRows == {Obs(100, "a", Libya), Obs(100, "b", Libya), Obs(400, "a", NaN)}

MissingDates == {20210115, 20210131, 20210215}

MissingSnapshots == Snapshots(MissingRows)

NextMissing ==
    \/ ArchiveSnapshot(MissingSnapshots, MissingDates)
    \/ HistoricalReconciliation
    \/ MonthlyDownload(MissingSnapshots, MissingDates)

SpecMissing == Init /\ [][NextMissing]_vars

(***************************************************************************)
(* Vocabulary of the properties                                            *)
(***************************************************************************)
\* an incremental run has produced the tracked list
Updated == current_date # NaT

\* the tracked list is the historical reconciler's output over files
HistoricalOutput == seed = "historical" /\ current_date = NaT

\* the snapshot of the latest run
LastSnapshot == history[Len(history)]

SnapshotKeys(snap) == {KeyOf(snap.rows[i]) : i \in DOMAIN snap.rows}

\* the report dates of the snapshots that contained key k
ObservedDates(k) ==
    {history[n].date : n \in {m \in DOMAIN history : k \in SnapshotKeys(history[m])}}

\* (Ent_num, Country, add_date, removal_date) of every row
Lifecycle(df) ==
    {<<df[i].Ent_num, df[i].Country, df[i].add_date, df[i].removal_date>> :
        i \in DOMAIN df}

\* the last days of the months of year y
MonthEndsOf(y) == {MkDate(y, m, DaysInMonth(y, m)) : m \in 1..12}

\* the first month end strictly after d
FirstMonthEndAfter(d) ==
    Min({e \in MonthEndsOf(Year(d)) \cup MonthEndsOf(Year(d) + 1) : e > d})

\* the last day of the month that follows the month of d
LastDayOfFollowingMonth(d) ==
    LET y == IF MonthOf(d) = 12 THEN Year(d) + 1 ELSE Year(d)
        m == IF MonthOf(d) = 12 THEN 1 ELSE MonthOf(d) + 1
    IN  Max({e \in MonthEndsOf(y) : MonthOf(e) = m})

Earlier(d, e) == IF d < e THEN d ELSE e

\* the last date of key k in a run: the run's date if the snapshot has the
\* key, else the latest report date of the key's tracked rows
RunLastDate(k) ==
    IF k \in SnapshotKeys(LastSnapshot) THEN current_date
    ELSE Max({existing_data[j].Rep_date :
                 j \in {n \in DOMAIN existing_data : KeyOf(existing_data[n]) = k}})

\* the removal_date the distinct record r carried before the run, NaT if new
PriorRemoval(r) ==
    LET hit == {j \in DOMAIN existing_data : DedupCols(existing_data[j]) = DedupCols(r)}
    IN  IF hit = {} THEN NaT ELSE existing_data[CHOOSE j \in hit : TRUE].removal_date

\* the month end a removal is dated: the last day of the following month,
\* or else the first month end after d
RemovalMonthEnd(following, d) ==
    IF following THEN LastDayOfFollowingMonth(d) ELSE FirstMonthEndAfter(d)

\* the removal rule of an incremental run
RemovalRule(following) ==
    Updated =>
        \A i \in DOMAIN ofac_list :
            LET r == ofac_list[i]
                L == RunLastDate(KeyOf(r))
            IN  /\ (L < current_date /\ isna(PriorRemoval(r)))
                      => r.removal_date =
                             Earlier(RemovalMonthEnd(following, L), current_date)
                /\ L = current_date => r.removal_date = PriorRemoval(r)

\* the removal rule of the historical reconciler
HistoricalRule(following) ==
    HistoricalOutput =>
        \A i \in DOMAIN ofac_list :
            LET r == ofac_list[i]
                k == KeyOf(r)
            IN  /\ ~isna(r.removal_date) <=> k \notin SnapshotKeys(LastSnapshot)
                /\ ~isna(r.removal_date)
                      => r.removal_date =
                             RemovalMonthEnd(following, Max(ObservedDates(k)))

\* the distinct (Ent_num, Country, add_date, removal_date) records of the
\* tracked list whose consolidated country is c
RecordsOf(c) == {t \in Lifecycle(ofac_list) : ReplaceCountry(t[2]) = c}

PanelRowsOf(c) == {i \in DOMAIN ofac_panel : ofac_panel[i].Country = c}

GridDates == {ofac_panel[i].Date : i \in DOMAIN ofac_panel}

(***************************************************************************)
(* Properties                                                              *)
(***************************************************************************)
\* C1: after an incremental run every row whose (Ent_num, Country) key was
\* already tracked before the run has the add_date the key had before the
\* run, also when the snapshot brought a new address variant of the key.
C1_AddDateStable ==
    Updated =>
        \A i \in DOMAIN ofac_list, j \in DOMAIN existing_data :
            KeyOf(ofac_list[i]) = KeyOf(existing_data[j])
                => ofac_list[i].add_date = existing_data[j].add_date

\* C1 witness: a run added a new address variant of an already tracked key
\* and the new row carries the older add_date.
C1_Witness ==
    /\ Updated
    /\ \E i \in DOMAIN ofac_list :
          /\ ofac_list[i].Rep_date = current_date
          /\ ofac_list[i].add_date < current_date
          /\ \E j \in DOMAIN existing_data :
                KeyOf(existing_data[j]) = KeyOf(ofac_list[i])
          /\ \A j \in DOMAIN existing_data :
                DedupCols(existing_data[j]) # DedupCols(ofac_list[i])

\* C2: the incremental reconciler run from an empty tracked list over
\* S1..Sn yields the lifecycle records (key, add_date, removal_date) the
\* historical reconciler yields over S1..Sn.
C2_HistoricalEqualsIncremental ==
    (seed = "empty" /\ history # <<>>) =>
        Lifecycle(ofac_list) = Lifecycle(reconcile_historical_data(history))

\* C3: every tracked row has add_date <= the latest report date of a
\* snapshot containing its key, and a removal_date, when set, is not
\* earlier than that date.
C3_DateOrdering ==
    \A i \in DOMAIN ofac_list :
        LET r == ofac_list[i]
            last_observed == Max(ObservedDates(KeyOf(r)))
        IN  /\ r.add_date <= last_observed
            /\ ~isna(r.removal_date) => last_observed <= r.removal_date

\* C4: levels of (country, date) is the number of (Ent_num, Country) keys
\* of that country added on or before the date and not removed by the date.
C4_LevelsCountActive ==
    \A i \in DOMAIN ofac_panel :
        LET p == ofac_panel[i]
        IN  p.levels = Cardinality(
                {<<t[1], t[2]>> : t \in
                    {u \in RecordsOf(p.Country) :
                        /\ u[3] <= p.Date
                        /\ (isna(u[4]) \/ u[4] > p.Date)}})

\* C5: levels is never negative.
C5_LevelsNonNegative ==
    \A i \in DOMAIN ofac_panel : ofac_panel[i].levels >= 0

\* C5 witness: after a historical reconciliation and an incremental run a
\* country's removals brought its levels down to 0.
C5_Witness ==
    /\ seed = "historical"
    /\ Updated
    /\ \E i \in DOMAIN ofac_panel :
          /\ ofac_panel[i].removals > 0
          /\ ofac_panel[i].levels = 0

\* C6: at the first grid date additions = 0 and levels = the number of the
\* country's records added on that date; at every later grid date
\* change = additions - removals and levels = previous levels + change.
C6_BootstrapAndRecurrence ==
    \A i \in DOMAIN ofac_panel :
        LET p == ofac_panel[i]
            first == Min(GridDates)
            before == {j \in PanelRowsOf(p.Country) : ofac_panel[j].Date < p.Date}
            prev == CHOOSE j \in before :
                        \A n \in before : ofac_panel[n].Date <= ofac_panel[j].Date
        IN  /\ p.change = p.additions - p.removals
            /\ p.Date = first =>
                  /\ p.additions = 0
                  /\ p.levels = Cardinality({t \in RecordsOf(p.Country) : t[3] = first})
            /\ p.Date # first =>
                  /\ before # {}
                  /\ p.levels = ofac_panel[prev].levels + p.change

\* C6 witness: a country with a stock at the first date and a non-zero
\* change at a later date.
C6_Witness ==
    \E i, j \in DOMAIN ofac_panel :
        /\ ofac_panel[i].Country = ofac_panel[j].Country
        /\ ofac_panel[i].Date = Min(GridDates)
        /\ ofac_panel[i].levels > 0
        /\ ofac_panel[j].Date > ofac_panel[i].Date
        /\ ofac_panel[j].removals > 0
        /\ ofac_panel[j].additions > 0

\* C7 as stated: a record whose key's last date L is before the run's date T
\* and that had no removal_date gets the last day of the month following L,
\* or T if that is later; a record whose key has last date T keeps what it had.
C7_RemovalFollowingMonth == RemovalRule(TRUE)

\* C7 as amended: the removal_date is the first month end after L (the end
\* of L's own month unless L is a month end), or T if that is later.
C7_RemovalNextMonthEnd == RemovalRule(FALSE)

\* C7 witness: a run marked a key last seen mid-month as removed at the end
\* of that same month, before the run's date.
C7_Witness ==
    /\ Updated
    /\ \E i \in DOMAIN ofac_list :
          LET r == ofac_list[i]
              L == RunLastDate(KeyOf(r))
          IN  /\ isna(PriorRemoval(r))
              /\ L < current_date
              /\ Day(L) < DaysInMonth(Year(L), MonthOf(L))
              /\ r.removal_date < current_date
              /\ MonthOf(r.removal_date) = MonthOf(L)

C9_ReappearanceUnmarks ==
    Updated =>
        \A i \in DOMAIN ofac_list :
            KeyOf(ofac_list[i]) \in SnapshotKeys(LastSnapshot)
                => isna(ofac_list[i].removal_date)

\* C10: the four West Bank and Gaza variants are counted together under
\* 'West Bank and Gaza'; no panel country starts with '-' or 'Region' or is
\* 'undetermined'; the panel has exactly one row for every pair of a report
\* date of the list and a remaining consolidated country.
C10_CountryNormalization ==
    LET dates == {ofac_list[i].Rep_date : i \in DOMAIN ofac_list}
        countries == {c \in {ReplaceCountry(ofac_list[i].Country) : i \in DOMAIN ofac_list} :
                         ~IsSpecialCase(c)}
        variants == {t \in Lifecycle(ofac_list) : t[2] \in wb_g \cup {WestBankAndGaza}}
    IN  /\ \A i \in DOMAIN ofac_panel :
              LET p == ofac_panel[i]
              IN  /\ ~StartsWith(p.Country, Dash)
                  /\ ~StartsWith(p.Country, Region)
                  /\ p.Country # undetermined
                  /\ p.Country = WestBankAndGaza =>
                        IF p.Date = Min(dates)
                        THEN p.levels = Cardinality({t \in variants : t[3] = p.Date})
                        ELSE p.additions = Cardinality({t \in variants : t[3] = p.Date})
        /\ variants # {} => \E i \in DOMAIN ofac_panel : ofac_panel[i].Country = WestBankAndGaza
        /\ {<<ofac_panel[i].Date, ofac_panel[i].Country>> : i \in DOMAIN ofac_panel}
              = dates \X countries
        /\ Len(ofac_panel) = Cardinality(dates \X countries)

\* C10 witness: the list holds 'West Bank', 'Region: Gaza' and a '-0' row,
\* and the panel counts two pairs under 'West Bank and Gaza'.
C10_Witness ==
    /\ \E i, j, n \in DOMAIN ofac_list :
          /\ ofac_list[i].Country = WestBank
          /\ ofac_list[j].Country = RegionGaza
          /\ ofac_list[n].Country = DashZero
    /\ \E i \in DOMAIN ofac_panel :
          /\ ofac_panel[i].Country = WestBankAndGaza
          /\ ofac_panel[i].levels = 2

\* the number of rows of df that are the distinct record rec
Occurrences(df, rec) == Cardinality({i \in DOMAIN df : DedupCols(df[i]) = rec})

\* C11: every distinct record (the row without Rep_date, add_date,
\* removal_date) of the prior tracked list or of the new snapshot is in the
\* incremental reconciler's output exactly once, and every distinct record
\* of any snapshot is in the historical reconciler's output exactly once,
\* also a record whose Country is missing.
C11_NoRecordLost ==
    /\ Updated =>
          \A rec \in {DedupCols(existing_data[i]) : i \in DOMAIN existing_data}
                     \cup {DedupCols(LastSnapshot.rows[i]) : i \in DOMAIN LastSnapshot.rows} :
              Occurrences(ofac_list, rec) = 1
    /\ HistoricalOutput =>
          \A n \in DOMAIN history :
              \A i \in DOMAIN history[n].rows :
                  Occurrences(ofac_list, DedupCols(history[n].rows[i])) = 1

====
